---- MODULE Spec2Model ----
(***************************************************************************)
(* A model of @typed/route: the runtime route AST, its concatenation, the  *)
(* matcher and interpolator compiled from it, the pattern parser and the   *)
(* specificity order.  Strings are TLA+ strings; a path-segment cursor is  *)
(* a sequence of strings; a URLSearchParams is a sequence of <<key,value>> *)
(* pairs; a parameter map is a function from keys to tagged values.        *)
(***************************************************************************)
EXTENDS Integers, Sequences, FiniteSets, TLC

VARIABLES
  route,      \* the Route object under test: [ast, end, match, interpolate]
  op,         \* the operation last applied
  arg,        \* its argument
  result,     \* what it returned
  operands,   \* the ASTs handed to AST.concat
  pattern,    \* the pattern string handed to AST.parse
  routes      \* the list handed to sortRoutes

vars == <<route, op, arg, result, operands, pattern, routes>>

(***************************************************************************)
(* Bounds of the model.                                                    *)
(***************************************************************************)
MaxSegs == 2
MaxRoutes == 4

(***************************************************************************)
(* JavaScript strings.                                                     *)
(***************************************************************************)

startsWith(s, p) == Len(p) <= Len(s) /\ SubSeq(s, 1, Len(p)) = p

endsWith(s, p) == Len(p) <= Len(s) /\ SubSeq(s, Len(s) - Len(p) + 1, Len(s)) = p

\* s.slice(n) for 0 <= n
sliceFrom(s, n) == IF n >= Len(s) THEN "" ELSE SubSeq(s, n + 1, Len(s))

\* s.slice(a, -1 * b) for 0 <= a, 0 <= b
sliceBetween(s, a, b) == IF a >= Len(s) - b THEN "" ELSE SubSeq(s, a + 1, Len(s) - b)

RECURSIVE indexOfFrom(_, _, _)
indexOfFrom(s, sep, i) ==
  IF i + Len(sep) - 1 > Len(s) THEN 0
  ELSE IF SubSeq(s, i, i + Len(sep) - 1) = sep THEN i
  ELSE indexOfFrom(s, sep, i + 1)

\* s.indexOf(sep) + 1, 0 when absent; sep is not empty
indexOf(s, sep) == indexOfFrom(s, sep, 1)

\* s.split(sep) for a non-empty separator string
RECURSIVE split(_, _)
split(s, sep) ==
  LET i == indexOf(s, sep)
  IN IF i = 0 THEN <<s>>
     ELSE <<SubSeq(s, 1, i - 1)>> \o split(sliceFrom(s, i + Len(sep) - 1), sep)

\* xs.join(sep)
RECURSIVE join(_, _)
join(xs, sep) ==
  IF Len(xs) = 0 THEN ""
  ELSE IF Len(xs) = 1 THEN xs[1]
  ELSE xs[1] \o sep \o join(Tail(xs), sep)

\* s.trim(), blanks being the only white space of the model
RECURSIVE trim(_)
trim(s) ==
  IF startsWith(s, " ") THEN trim(sliceFrom(s, 1))
  ELSE IF endsWith(s, " ") THEN trim(sliceBetween(s, 0, 1))
  ELSE s

\* the number of occurrences of the character c in s
RECURSIVE countChar(_, _)
countChar(s, c) ==
  IF Len(s) = 0 THEN 0
  ELSE (IF SubSeq(s, 1, 1) = c THEN 1 ELSE 0) + countChar(sliceFrom(s, 1), c)

(***************************************************************************)
(* The Path module (DSL and pathJoin).                                     *)
(***************************************************************************)
removeLeadingSlash(s) == IF startsWith(s, "/") THEN sliceFrom(s, 1) ELSE s

removeTrailingSlash(s) == IF endsWith(s, "/") THEN sliceBetween(s, 0, 1) ELSE s

formatPart(p) ==
  LET part == removeLeadingSlash(removeTrailingSlash(p))
  IN IF startsWith(part, "{") THEN part
     ELSE IF startsWith(part, "\\?") \/ startsWith(part, "?") THEN part
     ELSE IF part = "" THEN "" ELSE "/" \o part

RECURSIVE formatParts(_)
formatParts(parts) ==
  IF Len(parts) = 0 THEN "" ELSE formatPart(parts[1]) \o formatParts(Tail(parts))

\* P.pathJoin(...parts)
pathJoin(parts) ==
  IF Len(parts) = 0 THEN "/"
  ELSE IF formatParts(parts) = "" THEN "/" ELSE formatParts(parts)

PathUnnamed == "*"
PathParam(name) == ":" \o name
PathOptional(p) == p \o "?"
PathZeroOrMore(p) == p \o "*"
PathOneOrMore(p) == p \o "+"
PathPrefix(pre, p) == "{" \o pre \o p \o "}"
PathQueryParam(key, value) == key \o "=" \o value
PathQueryParams(params) == "\\?" \o join(params, "&")

(***************************************************************************)
(* AST nodes.                                                              *)
(***************************************************************************)
Literal(l) == [tag |-> "Literal", literal |-> l]
UnnamedParam == [tag |-> "UnnamedParam"]
Param(p) == [tag |-> "Param", param |-> p]
ZeroOrMore(p) == [tag |-> "ZeroOrMore", param |-> p]
OneOrMore(p) == [tag |-> "OneOrMore", param |-> p]
Optional(p) == [tag |-> "Optional", param |-> p]
Prefix(pre, p) == [tag |-> "Prefix", prefix |-> pre, param |-> p]
Concat(l, r) == [tag |-> "Concat", left |-> l, right |-> r]
WithSchema(a, s) == [tag |-> "WithSchema", ast |-> a, schema |-> s]
QueryParams(prev, ps) == [tag |-> "QueryParams", previous |-> prev, params |-> ps]
QueryParam(k, v) == [tag |-> "QueryParam", key |-> k, value |-> v]

isEmptyLiteral(ast) == ast.tag = "Literal" /\ removeTrailingSlash(ast.literal) = ""

\* the keys of a list of QueryParam nodes
paramKeys(ps) == {ps[i].key : i \in 1..Len(ps)}

\* left.params.filter((x) => !right.params.some((y) => x.key === y.key))
RECURSIVE filterNotIn(_, _)
filterNotIn(ps, keys) ==
  IF Len(ps) = 0 THEN <<>>
  ELSE (IF ps[1].key \in keys THEN <<>> ELSE <<ps[1]>>) \o filterNotIn(Tail(ps), keys)

\* the right-hand params lose against the left-hand ones
mergeParamsLeftWins(l, r) == l \o filterNotIn(r, paramKeys(l))

mergeParams(l, r) == filterNotIn(l, paramKeys(r)) \o r

concat(left, right) ==
  IF left.tag = "QueryParams" THEN
    IF right.tag = "QueryParams" THEN
      QueryParams(IF isEmptyLiteral(right.previous) THEN left.previous
                  ELSE Concat(left.previous, right.previous),
                  mergeParams(left.params, right.params))
    ELSE
      QueryParams(IF isEmptyLiteral(left.previous) THEN right
                  ELSE Concat(left.previous, right),
                  left.params)
  ELSE IF right.tag = "QueryParams" THEN
    QueryParams(IF isEmptyLiteral(right.previous) THEN left
                ELSE Concat(left, right.previous),
                right.params)
  ELSE Concat(left, right)

\* the groups of an AST, each a list of nodes matched against one path segment
RECURSIVE getAstSegments(_)
getAstSegments(part) ==
  CASE part.tag = "Literal" ->
         IF part.literal = "/" THEN <<>> ELSE <<<<part>>>>
    [] part.tag \in {"Param", "UnnamedParam", "ZeroOrMore", "OneOrMore", "Optional", "Prefix"} ->
         <<<<part>>>>
    [] part.tag = "Concat" -> getAstSegments(part.left) \o getAstSegments(part.right)
    [] part.tag = "QueryParams" -> getAstSegments(part.previous) \o <<<<part>>>>
    [] part.tag = "WithSchema" -> getAstSegments(part.ast)

(***************************************************************************)
(* Options and parameter maps.                                             *)
(***************************************************************************)
None == [tag |-> "None"]
Some(v) == [tag |-> "Some", value |-> v]
isSome(o) == o.tag = "Some"

\* values of a parameter map: a string, a list of strings, or the array of
\* path segments itself (the matcher hands out the cursor, not a copy)
Str(s) == [str |-> s]
List(xs) == [list |-> xs]
Cursor == [cursor |-> TRUE]

EmptyMap == [k \in {} |-> Str("")]
Single(key, v) == [k \in {key} |-> v]

\* Object.assign(target, source)
assign(target, source) ==
  [k \in DOMAIN target \cup DOMAIN source |->
     IF k \in DOMAIN source THEN source[k] ELSE target[k]]

\* the map as the caller reads it once the matcher has returned
resolve(m, segs) ==
  [k \in DOMAIN m |-> IF m[k] = Cursor THEN List(segs) ELSE m[k]]

\* the property key of an unnamed parameter
unnamedKey(n) == ToString(n)

(***************************************************************************)
(* URLSearchParams.                                                        *)
(***************************************************************************)
RECURSIVE getAll(_, _)
getAll(query, key) ==
  IF Len(query) = 0 THEN <<>>
  ELSE (IF query[1][1] = key THEN <<query[1][2]>> ELSE <<>>) \o getAll(Tail(query), key)

has(query, key) == Len(getAll(query, key)) > 0

\* query.get(key) of a key the query has
get(query, key) == getAll(query, key)[1]

RECURSIVE delete(_, _)
delete(query, key) ==
  IF Len(query) = 0 THEN <<>>
  ELSE (IF query[1][1] = key THEN <<>> ELSE <<query[1]>>) \o delete(Tail(query), key)

RECURSIVE appendAll(_, _, _)
appendAll(query, key, values) ==
  IF Len(values) = 0 THEN query
  ELSE appendAll(Append(query, <<key, values[1]>>), key, Tail(values))

(***************************************************************************)
(* The matcher compiler.  Compiling walks the AST once, handing out the    *)
(* keys of the unnamed parameters; the compiled matcher is then run on the *)
(* cursor and the query of one call.                                       *)
(***************************************************************************)
Threw == [threw |-> TRUE]
Compiled(m, n) == [threw |-> FALSE, matcher |-> m, unnamed |-> n]

\* ensureSimpleAst does not throw
isSimpleAst(ast) == ast.tag \notin {"Concat", "QueryParams"}

getParamByKey(key, isOptional, isMultiple) ==
  [kind |-> "ParamByKey", key |-> key, isOptional |-> isOptional, isMultiple |-> isMultiple]

RECURSIVE simpleAstToMatcher(_, _, _, _)
simpleAstToMatcher(ast, unnamed, isOptional, isMultiple) ==
  CASE ast.tag = "Optional" ->
         IF isSimpleAst(ast.param)
         THEN simpleAstToMatcher(ast.param, unnamed, TRUE, isMultiple) ELSE Threw
    [] ast.tag = "OneOrMore" ->
         IF isSimpleAst(ast.param)
         THEN simpleAstToMatcher(ast.param, unnamed, isOptional, TRUE) ELSE Threw
    [] ast.tag = "ZeroOrMore" ->
         IF isSimpleAst(ast.param)
         THEN simpleAstToMatcher(ast.param, unnamed, TRUE, TRUE) ELSE Threw
    [] ast.tag = "WithSchema" ->
         IF isSimpleAst(ast.ast)
         THEN simpleAstToMatcher(ast.ast, unnamed, isOptional, isMultiple) ELSE Threw
    [] ast.tag = "Literal" ->
         Compiled([kind |-> "Literal", literal |-> ast.literal], unnamed)
    [] ast.tag = "Prefix" ->
         IF ~isSimpleAst(ast.param) THEN Threw
         ELSE LET inner == simpleAstToMatcher(ast.param, unnamed, isOptional, isMultiple)
              IN IF inner.threw THEN Threw
                 ELSE Compiled([kind |-> "Prefix", prefix |-> ast.prefix,
                                inner |-> inner.matcher], inner.unnamed)
    [] ast.tag = "Param" ->
         Compiled(getParamByKey(ast.param, isOptional, isMultiple), unnamed)
    [] ast.tag = "UnnamedParam" ->
         Compiled(getParamByKey(unnamedKey(unnamed), isOptional, isMultiple), unnamed + 1)

getQueryParamByKey(key, outKey, isOptional, isMultiple) ==
  [kind |-> "QueryParamByKey", key |-> key, outKey |-> outKey,
   isOptional |-> isOptional, isMultiple |-> isMultiple]

RECURSIVE simpleAstToQueryMatcher(_, _, _, _, _)
simpleAstToQueryMatcher(key, ast, unnamed, isOptional, isMultiple) ==
  CASE ast.tag = "Optional" ->
         IF isSimpleAst(ast.param)
         THEN simpleAstToQueryMatcher(key, ast.param, unnamed, TRUE, isMultiple) ELSE Threw
    [] ast.tag = "OneOrMore" ->
         IF isSimpleAst(ast.param)
         THEN simpleAstToQueryMatcher(key, ast.param, unnamed, isOptional, TRUE) ELSE Threw
    [] ast.tag = "ZeroOrMore" ->
         IF isSimpleAst(ast.param)
         THEN simpleAstToQueryMatcher(key, ast.param, unnamed, TRUE, TRUE) ELSE Threw
    [] ast.tag = "WithSchema" ->
         IF isSimpleAst(ast.ast)
         THEN simpleAstToQueryMatcher(key, ast.ast, unnamed, isOptional, isMultiple) ELSE Threw
    [] ast.tag = "Literal" ->
         Compiled([kind |-> "QueryLiteral", key |-> key, literal |-> ast.literal], unnamed)
    [] ast.tag = "Prefix" ->
         IF ~isSimpleAst(ast.param) THEN Threw
         ELSE LET inner == simpleAstToQueryMatcher(key, ast.param, unnamed, isOptional, isMultiple)
              IN IF inner.threw THEN Threw
                 ELSE Compiled([kind |-> "QueryPrefix", key |-> key, prefix |-> ast.prefix,
                                inner |-> inner.matcher], inner.unnamed)
    [] ast.tag = "Param" ->
         Compiled(getQueryParamByKey(key, ast.param, isOptional, isMultiple), unnamed)
    [] ast.tag = "UnnamedParam" ->
         Compiled(getQueryParamByKey(key, unnamedKey(unnamed), isOptional, isMultiple),
                  unnamed + 1)

\* the matchers of the declared query params, compiled left to right
RECURSIVE queryParamMatchers(_, _)
queryParamMatchers(params, unnamed) ==
  IF Len(params) = 0 THEN [threw |-> FALSE, matchers |-> <<>>, unnamed |-> unnamed]
  ELSE IF ~isSimpleAst(params[1].value) THEN [threw |-> TRUE]
  ELSE LET m == simpleAstToQueryMatcher(params[1].key, params[1].value, unnamed, FALSE, FALSE)
       IN IF m.threw THEN [threw |-> TRUE]
          ELSE LET rest == queryParamMatchers(Tail(params), m.unnamed)
               IN IF rest.threw THEN [threw |-> TRUE]
                  ELSE [threw |-> FALSE, matchers |-> <<m.matcher>> \o rest.matchers,
                        unnamed |-> rest.unnamed]

queryParamsToMatcher(queryParams, unnamed) ==
  LET ms == queryParamMatchers(queryParams.params, unnamed)
  IN IF ms.threw THEN Threw
     ELSE Compiled([kind |-> "QueryParams", matchers |-> ms.matchers], ms.unnamed)

\* the parts of a group of several nodes, compiled left to right
RECURSIVE compoundParts(_, _)
compoundParts(astSegment, unnamed) ==
  IF Len(astSegment) = 0 THEN [threw |-> FALSE, matchers |-> <<>>, unnamed |-> unnamed]
  ELSE IF ~isSimpleAst(astSegment[1]) THEN [threw |-> TRUE]
  ELSE LET m == simpleAstToMatcher(astSegment[1], unnamed, FALSE, FALSE)
       IN IF m.threw THEN [threw |-> TRUE]
          ELSE LET rest == compoundParts(Tail(astSegment), m.unnamed)
               IN IF rest.threw THEN [threw |-> TRUE]
                  ELSE [threw |-> FALSE, matchers |-> <<m.matcher>> \o rest.matchers,
                        unnamed |-> rest.unnamed]

astSegmentToMatcher(astSegment, unnamed) ==
  IF Len(astSegment) = 0 THEN Threw
  ELSE IF Len(astSegment) = 1 THEN
    IF astSegment[1].tag = "Concat" THEN Threw
    ELSE IF astSegment[1].tag = "QueryParams" THEN queryParamsToMatcher(astSegment[1], unnamed)
    ELSE simpleAstToMatcher(astSegment[1], unnamed, FALSE, FALSE)
  ELSE LET ps == compoundParts(astSegment, unnamed)
       IN IF ps.threw THEN Threw
          ELSE Compiled([kind |-> "Compound", parts |-> ps.matchers], ps.unnamed)

\* getAstSegments(ast).map((segment) => astSegmentToMatcher(segment, ctx))
RECURSIVE segmentMatchers(_, _)
segmentMatchers(groups, unnamed) ==
  IF Len(groups) = 0 THEN [threw |-> FALSE, matchers |-> <<>>]
  ELSE LET m == astSegmentToMatcher(groups[1], unnamed)
       IN IF m.threw THEN [threw |-> TRUE]
          ELSE LET rest == segmentMatchers(Tail(groups), m.unnamed)
               IN IF rest.threw THEN [threw |-> TRUE]
                  ELSE [threw |-> FALSE, matchers |-> <<m.matcher>> \o rest.matchers]

(***************************************************************************)
(* Running a compiled matcher on the cursor and the query of one call.     *)
(* What a matcher returns is [some, value] with the cursor and the query   *)
(* as it leaves them.                                                      *)
(***************************************************************************)
Ret(some, value, segs, query) ==
  [some |-> some, value |-> value, segs |-> segs, query |-> query]

runParamByKey(m, segs, query) ==
  IF ~m.isOptional /\ Len(segs) = 0 THEN Ret(FALSE, EmptyMap, segs, query)
  ELSE IF m.isMultiple THEN Ret(TRUE, Single(m.key, Cursor), segs, query)
  ELSE IF Len(segs) = 0 THEN Ret(TRUE, EmptyMap, segs, query)
  ELSE IF Head(segs) = "" THEN Ret(m.isOptional, EmptyMap, Tail(segs), query)
  ELSE Ret(TRUE, Single(m.key, Str(Head(segs))), Tail(segs), query)

\* a required key that the query lacks is let through
runQueryParamByKeyLenient(m, segs, query) ==
  IF m.isMultiple THEN Ret(TRUE, Single(m.outKey, List(getAll(query, m.key))), segs, query)
  ELSE IF ~has(query, m.key) THEN Ret(TRUE, EmptyMap, segs, query)
  ELSE Ret(TRUE, Single(m.outKey, Str(get(query, m.key))), segs, query)

runQueryParamByKey(m, segs, query) ==
  IF m.isMultiple THEN
    IF m.isOptional \/ has(query, m.key)
    THEN Ret(TRUE, Single(m.outKey, List(getAll(query, m.key))), segs, query)
    ELSE Ret(FALSE, EmptyMap, segs, query)
  ELSE IF ~has(query, m.key) THEN Ret(m.isOptional, EmptyMap, segs, query)
  ELSE Ret(TRUE, Single(m.outKey, Str(get(query, m.key))), segs, query)

\* only the values that start with the prefix are kept and trimmed
trimValuesPrefixed(values, prefix) ==
  LET prefixed == SelectSeq(values, LAMBDA value : startsWith(value, prefix))
  IN [i \in 1..Len(prefixed) |-> sliceFrom(prefixed[i], Len(prefix))]

\* values.map((value) => value.slice(prefix.length))
trimValues(values, prefix) == [i \in 1..Len(values) |-> sliceFrom(values[i], Len(prefix))]

\* pathSegments[0]?.startsWith(prefix), without the test
frontStartsWithAny(segs, pre) == Len(segs) > 0

\* pathSegments[0]?.startsWith(prefix)
frontStartsWith(segs, pre) == Len(segs) > 0 /\ startsWith(Head(segs), pre)

RECURSIVE runMatcher(_, _, _)
RECURSIVE runAll(_, _, _, _)
RECURSIVE runEach(_, _, _, _, _)

\* the loop over matchers that returns none at the first one that fails
runAll(matchers, acc, segs, query) ==
  IF Len(matchers) = 0 THEN Ret(TRUE, acc, segs, query)
  ELSE LET r == runMatcher(matchers[1], segs, query)
       IN IF ~r.some THEN Ret(FALSE, EmptyMap, r.segs, r.query)
          ELSE runAll(Tail(matchers), assign(acc, r.value), r.segs, r.query)

\* the parts of a group of several nodes: every part runs, then all must be some
runEach(parts, allSome, acc, segs, query) ==
  IF Len(parts) = 0 THEN Ret(allSome, IF allSome THEN acc ELSE EmptyMap, segs, query)
  ELSE LET r == runMatcher(parts[1], segs, query)
       IN runEach(Tail(parts), allSome /\ r.some,
                  IF r.some THEN assign(acc, r.value) ELSE acc, r.segs, r.query)

runMatcher(m, segs, query) ==
  CASE m.kind = "Literal" ->
         IF Len(segs) > 0 /\ Head(segs) = m.literal
         THEN Ret(TRUE, EmptyMap, Tail(segs), query)
         ELSE Ret(FALSE, EmptyMap, segs, query)
    [] m.kind = "Prefix" ->
         IF frontStartsWith(segs, m.prefix)
         THEN runMatcher(m.inner, <<sliceFrom(Head(segs), Len(m.prefix))>> \o Tail(segs), query)
         ELSE Ret(FALSE, EmptyMap, segs, query)
    [] m.kind = "ParamByKey" -> runParamByKey(m, segs, query)
    [] m.kind = "QueryParams" -> runAll(m.matchers, EmptyMap, segs, query)
    [] m.kind = "Compound" -> runEach(m.parts, TRUE, EmptyMap, segs, query)
    [] m.kind = "QueryLiteral" ->
         Ret(has(query, m.key) /\ get(query, m.key) = m.literal, EmptyMap, segs, query)
    [] m.kind = "QueryPrefix" ->
         runMatcher(m.inner, segs,
                    appendAll(delete(query, m.key), m.key,
                              trimValues(getAll(query, m.key), m.prefix)))
    [] m.kind = "QueryParamByKey" -> runQueryParamByKey(m, segs, query)

\* astToMatcher(ast, end): the compiled matcher, or Threw
astToMatcher(ast, end) ==
  LET ms == segmentMatchers(getAstSegments(ast), 0)
  IN IF ms.threw THEN Threw ELSE [threw |-> FALSE, matchers |-> ms.matchers, end |-> end]

\* the groups run in order on the cursor, before the end flag is looked at
runGroups(matcher, segs, query) == runAll(matcher.matchers, EmptyMap, segs, query)

\* end && pathSegments.length > 0, with the end flag ignored
segmentsLeftIgnoringEnd(end, segs) == FALSE

\* end && pathSegments.length > 0
segmentsLeft(end, segs) == end /\ Len(segs) > 0

\* the matcher astToMatcher returns, applied to (pathSegments, query)
applyMatcher(matcher, segs, query) ==
  LET r == runGroups(matcher, segs, query)
  IN IF ~r.some THEN None
     ELSE IF segmentsLeft(matcher.end, r.segs) THEN None
     ELSE Some(resolve(r.value, r.segs))

(***************************************************************************)
(* getPathAndQuery: the path segments and the query of an input string.    *)
(***************************************************************************)
\* the entries of a query string k=v&k=v, as URLSearchParams reads them
RECURSIVE searchParams(_)
searchParams(pieces) ==
  IF Len(pieces) = 0 THEN <<>>
  ELSE (IF pieces[1] = "" THEN <<>>
        ELSE LET i == indexOf(pieces[1], "=")
             IN IF i = 0 THEN <<<<pieces[1], "">>>>
                ELSE <<<<SubSeq(pieces[1], 1, i - 1), sliceFrom(pieces[1], i)>>>>)
       \o searchParams(Tail(pieces))

\* new URL(path, 'http://localhost') for a path that starts with '/' and has
\* no fragment, no dot segment and no character that is percent-encoded
parseUrl(path) ==
  LET i == indexOf(path, "?")
  IN IF i = 0 THEN [pathname |-> path, searchParams |-> <<>>]
     ELSE [pathname |-> SubSeq(path, 1, i - 1),
           searchParams |-> searchParams(split(sliceFrom(path, i), "&"))]

\* drop an empty first and an empty last element
dropEmptyEnds(xs) ==
  LET a == IF Len(xs) > 0 /\ xs[1] = "" THEN Tail(xs) ELSE xs
  IN IF Len(a) > 0 /\ a[Len(a)] = "" THEN SubSeq(a, 1, Len(a) - 1) ELSE a

getPathAndQuery(path) ==
  LET url == parseUrl(path)
  IN [pathSegments |-> dropEmptyEnds(split(url.pathname, "/")),
      query |-> url.searchParams]

(***************************************************************************)
(* The interpolator compiler.  A compiled part is a literal or a function  *)
(* of the parameter map; rendering returns a string or throws.             *)
(***************************************************************************)
InterpolateLiteral(v) == [tag |-> "Literal", value |-> v]
Part(p, n) == [threw |-> FALSE, part |-> p, unnamed |-> n]

getParam(key, isOptional, isMultiple) ==
  [tag |-> "Param", kind |-> "getParam", key |-> key,
   isOptional |-> isOptional, isMultiple |-> isMultiple]

RECURSIVE simpleAstToInterpolationPart(_, _, _, _)
simpleAstToInterpolationPart(ast, unnamed, isOptional, isMultiple) ==
  CASE ast.tag = "Literal" -> Part(InterpolateLiteral(ast.literal), unnamed)
    [] ast.tag = "OneOrMore" ->
         IF isSimpleAst(ast.param)
         THEN simpleAstToInterpolationPart(ast.param, unnamed, isOptional, TRUE) ELSE Threw
    [] ast.tag = "Optional" ->
         IF isSimpleAst(ast.param)
         THEN simpleAstToInterpolationPart(ast.param, unnamed, TRUE, isMultiple) ELSE Threw
    [] ast.tag = "Param" -> Part(getParam(ast.param, isOptional, isMultiple), unnamed)
    [] ast.tag = "Prefix" ->
         IF ~isSimpleAst(ast.param) THEN Threw
         ELSE LET inner == simpleAstToInterpolationPart(ast.param, unnamed, isOptional, isMultiple)
              IN IF inner.threw THEN Threw
                 ELSE IF inner.part.tag = "Literal"
                 THEN Part(InterpolateLiteral(ast.prefix \o inner.part.value), inner.unnamed)
                 ELSE Part([tag |-> "Param", kind |-> "prefix", prefix |-> ast.prefix,
                            inner |-> inner.part], inner.unnamed)
    [] ast.tag = "UnnamedParam" ->
         Part(getParam(unnamedKey(unnamed), isOptional, isMultiple), unnamed + 1)
    [] ast.tag = "WithSchema" ->
         IF isSimpleAst(ast.ast)
         THEN simpleAstToInterpolationPart(ast.ast, unnamed, isOptional, isMultiple) ELSE Threw
    [] ast.tag = "ZeroOrMore" ->
         IF isSimpleAst(ast.param)
         THEN simpleAstToInterpolationPart(ast.param, unnamed, TRUE, TRUE) ELSE Threw

\* an UnnamedParam is reached below a node that ensureSimpleAst accepts
RECURSIVE hasUnnamed(_)
hasUnnamed(ast) ==
  CASE ast.tag = "UnnamedParam" -> TRUE
    [] ast.tag \in {"Optional", "OneOrMore", "ZeroOrMore", "Prefix"} ->
         isSimpleAst(ast.param) /\ hasUnnamed(ast.param)
    [] ast.tag = "WithSchema" -> isSimpleAst(ast.ast) /\ hasUnnamed(ast.ast)
    [] OTHER -> FALSE

\* queryParams.params.map(queryParamToInterpolationPart): map hands the index of
\* the element to the ctx parameter, and a strict-mode module throws when
\* ctx.unnamed++ assigns a property of that number
queryParamToInterpolationPart(queryParam) ==
  IF ~isSimpleAst(queryParam.value) \/ hasUnnamed(queryParam.value) THEN Threw
  ELSE LET simplePart == simpleAstToInterpolationPart(queryParam.value, 0, FALSE, FALSE)
       IN IF simplePart.threw THEN Threw
          ELSE IF simplePart.part.tag = "Literal"
          THEN Part(InterpolateLiteral(queryParam.key \o "=" \o simplePart.part.value), 0)
          ELSE Part([tag |-> "Param", kind |-> "queryParam", key |-> queryParam.key,
                     inner |-> simplePart.part], 0)

RECURSIVE queryParamParts(_)
queryParamParts(params) ==
  IF Len(params) = 0 THEN [threw |-> FALSE, parts |-> <<>>]
  ELSE LET p == queryParamToInterpolationPart(params[1])
           rest == queryParamParts(Tail(params))
       IN IF p.threw \/ rest.threw THEN [threw |-> TRUE]
          ELSE [threw |-> FALSE, parts |-> <<p.part>> \o rest.parts]

queryParamsToInterpolationPart(queryParams, unnamed) ==
  LET ps == queryParamParts(queryParams.params)
  IN IF ps.threw THEN Threw
     ELSE Part([tag |-> "Param", kind |-> "queryParams", parts |-> ps.parts], unnamed)

RECURSIVE compoundInterpolationParts(_, _)
compoundInterpolationParts(astSegment, unnamed) ==
  IF Len(astSegment) = 0 THEN [threw |-> FALSE, parts |-> <<>>, unnamed |-> unnamed]
  ELSE IF ~isSimpleAst(astSegment[1]) THEN [threw |-> TRUE]
  ELSE LET p == simpleAstToInterpolationPart(astSegment[1], unnamed, FALSE, FALSE)
       IN IF p.threw THEN [threw |-> TRUE]
          ELSE LET rest == compoundInterpolationParts(Tail(astSegment), p.unnamed)
               IN IF rest.threw THEN [threw |-> TRUE]
                  ELSE [threw |-> FALSE, parts |-> <<p.part>> \o rest.parts,
                        unnamed |-> rest.unnamed]

astSegmentToInterpolationPart(astSegment, unnamed) ==
  IF Len(astSegment) = 0 THEN Threw
  ELSE IF Len(astSegment) = 1 THEN
    IF astSegment[1].tag = "Concat" THEN Threw
    ELSE IF astSegment[1].tag = "QueryParams"
    THEN queryParamsToInterpolationPart(astSegment[1], unnamed)
    ELSE simpleAstToInterpolationPart(astSegment[1], unnamed, FALSE, FALSE)
  ELSE LET ps == compoundInterpolationParts(astSegment, unnamed)
       IN IF ps.threw THEN Threw
          ELSE Part([tag |-> "Param", kind |-> "compound", parts |-> ps.parts], ps.unnamed)

\* getAstSegments(ast).map((segment) => astSegmentToInterpolationPart(segment, ctx))
RECURSIVE segmentParts(_, _)
segmentParts(groups, unnamed) ==
  IF Len(groups) = 0 THEN [threw |-> FALSE, parts |-> <<>>]
  ELSE LET p == astSegmentToInterpolationPart(groups[1], unnamed)
       IN IF p.threw THEN [threw |-> TRUE]
          ELSE LET rest == segmentParts(Tail(groups), p.unnamed)
               IN IF rest.threw THEN [threw |-> TRUE]
                  ELSE [threw |-> FALSE, parts |-> <<p.part>> \o rest.parts]

\* rendering: [threw, value]
Rendered(v) == [threw |-> FALSE, value |-> v]

\* a getParam that renders the empty string where the code throws
renderParamLenient(p, params) ==
  LET present == p.key \in DOMAIN params
      value == params[p.key]
      isArray == present /\ "list" \in DOMAIN value
  IN IF ~present THEN Rendered("")
     ELSE IF isArray THEN Rendered(join(value.list, "/"))
     ELSE Rendered(value.str)

\* the function getParam returns, applied to params
renderParam(p, params) ==
  LET present == p.key \in DOMAIN params
      value == params[p.key]
      isArray == present /\ "list" \in DOMAIN value
      falsy == ~present \/ (~isArray /\ value.str = "")
  IN IF p.isOptional /\ falsy THEN Rendered("")
     ELSE IF falsy THEN Threw
     ELSE IF isArray THEN
       IF ~p.isOptional /\ Len(value.list) = 0 THEN Threw
       ELSE IF p.isMultiple THEN Rendered(join(value.list, "/"))
       ELSE Threw
     ELSE Rendered(value.str)

\* xs.flatMap((value) => value === '' ? [] : [value])
nonEmpty(xs) == SelectSeq(xs, LAMBDA v : v # "")

\* the renderings of the parts, in order; throws if one of them throws
renderedAll(vals) ==
  IF \E k \in 1..Len(vals) : vals[k].threw THEN [threw |-> TRUE]
  ELSE [threw |-> FALSE, values |-> [k \in 1..Len(vals) |-> vals[k].value]]

\* the function of an interpolation part, applied to params
RECURSIVE renderPart(_, _)
renderPart(p, params) ==
  LET sub == IF p.tag = "Literal" \/ p.kind = "getParam" THEN <<>>
             ELSE IF p.kind \in {"prefix", "queryParam"} THEN <<p.inner>>
             ELSE p.parts
      vs == renderedAll([k \in 1..Len(sub) |-> renderPart(sub[k], params)])
  IN CASE p.tag = "Literal" -> Rendered(p.value)
       [] p.kind = "getParam" -> renderParam(p, params)
       [] vs.threw -> Threw
       [] p.kind = "prefix" ->
            Rendered(IF vs.values[1] = "" THEN "" ELSE p.prefix \o vs.values[1])
       [] p.kind = "queryParam" ->
            Rendered(IF vs.values[1] = "" THEN "" ELSE p.key \o "=" \o vs.values[1])
       [] p.kind = "queryParams" ->
            LET query == join(nonEmpty(vs.values), "&")
            IN Rendered(IF query = "" THEN "" ELSE "?" \o query)
       [] p.kind = "compound" -> Rendered(join(nonEmpty(vs.values), ""))

\* astToInterpolation(ast): the compiled interpolation part, or Threw
astToInterpolation(ast) ==
  LET ps == segmentParts(getAstSegments(ast), 0)
  IN IF ps.threw THEN Threw
     ELSE IF \A i \in 1..Len(ps.parts) : ps.parts[i].tag = "Literal"
     THEN [threw |-> FALSE, tag |-> "Literal",
           value |-> pathJoin([i \in 1..Len(ps.parts) |-> ps.parts[i].value])]
     ELSE [threw |-> FALSE, tag |-> "Param", parts |-> ps.parts]

\* an interpolater that concatenates the renderings without P.pathJoin
applyInterpolationUnjoined(interpolation, params) ==
  IF interpolation.tag = "Literal" THEN Rendered(interpolation.value)
  ELSE LET parts == interpolation.parts
           vs == renderedAll([k \in 1..Len(parts) |-> renderPart(parts[k], params)])
       IN IF vs.threw THEN Threw ELSE Rendered(join(vs.values, ""))

\* the interpolater getInterpolate returns, applied to params
applyInterpolation(interpolation, params) ==
  IF interpolation.tag = "Literal" THEN Rendered(interpolation.value)
  ELSE LET parts == interpolation.parts
           vs == renderedAll([k \in 1..Len(parts) |-> renderPart(parts[k], params)])
       IN IF vs.threw THEN Threw ELSE Rendered(pathJoin(vs.values))

(***************************************************************************)
(* Routes: an AST, the end flag and the lazily compiled matcher and        *)
(* interpolator.                                                           *)
(***************************************************************************)
NotCompiled == [compiled |-> FALSE]

make(ast, end) ==
  [ast |-> ast, end |-> end, match |-> NotCompiled, interpolate |-> NotCompiled]

literal(l) == Literal(removeLeadingSlash(removeTrailingSlash(l)))
separator == Literal("/")
param(name) == Param(name)
paramWithSchema(name, schema) == WithSchema(Param(name), schema)
integer(name) == paramWithSchema(name, "Int")
unnamed == UnnamedParam
optional(ast) == Optional(ast)
oneOrMore(ast) == OneOrMore(ast)
zeroOrMore(ast) == ZeroOrMore(ast)
prefix(pre, ast) == Prefix(pre, ast)
queryParams(params) == QueryParams(separator, params)

\* getMatch(route, route.routeOptions): the compiled matcher
getMatch(r) == astToMatcher(r.ast, r.end)

\* the function getMatch returns, applied to path
matchPath(matcher, path) ==
  LET pq == getPathAndQuery(path)
  IN applyMatcher(matcher, pq.pathSegments, pq.query)

\* route.match(path) of a route whose AST compiles
match(r, path) == matchPath(getMatch(r), path)

\* getInterpolate(route)
getInterpolate(r) == astToInterpolation(r.ast)

\* route.interpolate(params) of a route whose AST compiles
interpolate(r, params) == applyInterpolation(getInterpolate(r), params)

(***************************************************************************)
(* decode: the structural match, then the validator of the route's schema. *)
(* The validator is a black box: it accepts the matched map and returns a  *)
(* typed value, or rejects it with an issue.                               *)
(***************************************************************************)
Verdicts == {"accept", "reject"}

decodeSchema(verdict, params) ==
  IF verdict = "accept" THEN [tag |-> "Right", value |-> [decoded |-> params]]
  ELSE [tag |-> "Left", error |-> [tag |-> "ParseError", issue |-> [rejected |-> params]]]

\* the two errors are told apart the wrong way round
decodeErrorsSwapped(r, matched, verdict) ==
  IF ~isSome(matched)
  THEN [tag |-> "Failure",
        error |-> [tag |-> "RouteDecodeError", route |-> r.ast, issue |-> [rejected |-> EmptyMap]],
        validated |-> FALSE]
  ELSE LET d == decodeSchema(verdict, matched.value)
       IN IF d.tag = "Left"
          THEN [tag |-> "Failure", error |-> [tag |-> "RouteNotMatched", route |-> r.ast],
                validated |-> TRUE]
          ELSE [tag |-> "Success", value |-> d.value, validated |-> TRUE]

\* Effect.mapError(Effect.flatMap(route.match(path), Schema.decode(route.schema)), ...)
decode(r, matched, verdict) ==
  IF ~isSome(matched)
  THEN [tag |-> "Failure", error |-> [tag |-> "RouteNotMatched", route |-> r.ast],
        validated |-> FALSE]
  ELSE LET d == decodeSchema(verdict, matched.value)
       IN IF d.tag = "Left"
          THEN [tag |-> "Failure",
                error |-> [tag |-> "RouteDecodeError", route |-> r.ast, issue |-> d.error.issue],
                validated |-> TRUE]
          ELSE [tag |-> "Success", value |-> d.value, validated |-> TRUE]

(***************************************************************************)
(* The routes and the inputs of the model.                                 *)
(***************************************************************************)
SearchParams ==
  <<QueryParam("q", param("query")), QueryParam("page", optional(param("page")))>>

\* the routes the constructors give
BaseAsts ==
  { literal("articles"), literal("foo"), literal("/"), separator,
    param("slug"), unnamed,
    prefix("-", integer("fooId")), prefix("user-", param("id")),
    optional(param("id")), oneOrMore(param("rest")), zeroOrMore(param("rest")),
    queryParams(SearchParams) }

\* the constructed routes and their concatenations
RouteAsts == BaseAsts \cup 
  {concat(a, b) : a \in {literal("articles"), literal("foo"), separator, param("slug")},
                  b \in BaseAsts}
    \cup {concat(zeroOrMore(param("rest")), literal("foo")),
          concat(oneOrMore(param("rest")), param("slug")),
          concat(unnamed, unnamed),
          concat(unnamed, queryParams(<<QueryParam("q", unnamed)>>)),
          queryParams(<<QueryParam("q", prefix("te", param("query")))>>),
          queryParams(<<QueryParam("q", prefix("xy", param("query")))>>),
          optional(concat(literal("foo"), param("slug"))),
          queryParams(<<QueryParam("q", Concat(Literal("foo"), Prefix("-", Param("id"))))>>)}

RECURSIVE SegLists(_)
SegLists(n) ==
  IF n = 0 THEN {<<>>}
  ELSE SegLists(n - 1) \cup {Append(xs, x) : xs \in SegLists(n - 1), 
                           x \in {"articles", "123", "foo", "-123", "foo-123"}}

\* the input strings: every path of at most MaxSegs segments, and some paths
\* with an empty segment, a prefix alone or a query string
Paths ==
  {"/" \o join(segs, "/") : segs \in SegLists(MaxSegs)}
    \cup {"/articles//123", "/articles/123/comments", "/user-123", "/user-", "/user-123/foo"}
    \cup {p \o q : p \in {"/", "/search", "/foo/123"}, 
                  q \in {"", "?q=test", "?q=test&page=2", "?page=2", "?x=1&q=test"}}

\* the input strings handed to decode
DecodePaths ==
  {"/", "/articles", "/articles/123", "/articles/123/comments", "/foo/-123", "/user-123",
   "/search?q=test", "/?q=test&page=2"}

\* the named and unnamed keys a route can capture
RECURSIVE keysOf(_, _)
keysOf(ast, n) ==
  CASE ast.tag = "Param" -> [keys |-> {ast.param}, n |-> n]
    [] ast.tag = "UnnamedParam" -> [keys |-> {unnamedKey(n)}, n |-> n + 1]
    [] ast.tag \in {"Optional", "OneOrMore", "ZeroOrMore", "Prefix"} -> keysOf(ast.param, n)
    [] ast.tag = "WithSchema" -> keysOf(ast.ast, n)
    [] ast.tag = "Concat" ->
         LET l == keysOf(ast.left, n)
             r == keysOf(ast.right, l.n)
         IN [keys |-> l.keys \cup r.keys, n |-> r.n]
    [] ast.tag = "QueryParams" ->
         LET l == keysOf(ast.previous, n)
         IN [keys |-> l.keys \cup UNION {keysOf(ast.params[i].value, 0).keys :
                                           i \in 1..Len(ast.params)},
             n |-> l.n]
    [] OTHER -> [keys |-> {}, n |-> n]

\* the parameter maps handed to interpolate: any value for any of the keys
ParamMaps(ast) ==
  UNION {[ks -> {Str("123"), Str(""), List(<<>>), List(<<"foo", "123">>)}] :
           ks \in SUBSET keysOf(ast, 0).keys}

(***************************************************************************)
(* The operations on a route.                                              *)
(***************************************************************************)
Nil == [tag |-> "Nil"]
ThrewError == [tag |-> "Threw"]

\* a route as constructed, before any call on it
Init ==
  /\ route \in {make(ast, end) : ast \in RouteAsts, end \in BOOLEAN}
  /\ op = "make"
  /\ arg = Nil
  /\ result = Nil
  /\ operands = <<>>
  /\ pattern = ""
  /\ routes = <<>>

\* route.match(path): the matcher is compiled on the first call and kept
Match(path) ==
  /\ op = "make"
  /\ \E m \in {IF route.match = NotCompiled THEN getMatch(route) ELSE route.match} :
       /\ op' = "match"
       /\ arg' = [path |-> path]
       /\ route' = IF m.threw THEN route ELSE [route EXCEPT !.match = m]
       /\ result' = IF m.threw THEN ThrewError ELSE matchPath(m, path)
       /\ UNCHANGED <<operands, pattern, routes>>

\* route.interpolate(params): the interpolator is compiled on the first call and kept
Interpolate(params) ==
  /\ op = "make"
  /\ \E i \in {IF route.interpolate = NotCompiled THEN getInterpolate(route)
               ELSE route.interpolate} :
     \E v \in {IF i.threw THEN Threw ELSE applyInterpolation(i, params)} :
       /\ op' = "interpolate"
       /\ arg' = [params |-> params]
       /\ route' = IF i.threw THEN route ELSE [route EXCEPT !.interpolate = i]
       /\ result' = IF i.threw \/ v.threw THEN ThrewError ELSE [tag |-> "Path", value |-> v.value]
       /\ UNCHANGED <<operands, pattern, routes>>

\* Route.decode(route, path) with a validator that gives the verdict
Decode(path, verdict) ==
  /\ op = "make"
  /\ \E m \in {IF route.match = NotCompiled THEN getMatch(route) ELSE route.match} :
       /\ op' = "decode"
       /\ arg' = [path |-> path, verdict |-> verdict]
       /\ route' = IF m.threw THEN route ELSE [route EXCEPT !.match = m]
       /\ result' = IF m.threw THEN ThrewError ELSE decode(route, matchPath(m, path), verdict)
       /\ UNCHANGED <<operands, pattern, routes>>

Next ==
  \/ \E path \in Paths : Match(path)
  \/ \E params \in ParamMaps(route.ast) : Interpolate(params)
  \/ \E path \in DecodePaths, verdict \in Verdicts : Decode(path, verdict)

Spec == Init /\ [][Next]_vars

(***************************************************************************)
(* Properties of match, interpolate and decode.                            *)
(***************************************************************************)
ArticlesSlug == concat(literal("articles"), param("slug"))
FooPrefixed == concat(literal("foo"), prefix("-", integer("fooId")))
UserPrefix == prefix("user-", param("id"))
SearchRoute == concat(separator, queryParams(SearchParams))

\* the cursor and the query of the call the state records
CallSegs == getPathAndQuery(arg.path).pathSegments
CallQuery == getPathAndQuery(arg.path).query
Matched == op = "match" /\ result # ThrewError

\* C1: a route with end=true matches iff every group matches in order and no
\* path segment is left on the cursor afterwards; with end=false it matches
\* whenever every group matches, whatever is left, and gives the same
\* parameter map; /articles/:slug gives {slug: '123'} for /articles/123 under
\* both flags, and for /articles/123/comments only with end=false.
C1_EndFlag ==
  Matched =>
    LET g == runGroups(astToMatcher(route.ast, FALSE), CallSegs, CallQuery)
        strict == applyMatcher(astToMatcher(route.ast, TRUE), CallSegs, CallQuery)
        loose == applyMatcher(astToMatcher(route.ast, FALSE), CallSegs, CallQuery)
    IN /\ result = IF route.end THEN strict ELSE loose
       /\ isSome(strict) <=> (g.some /\ Len(g.segs) = 0)
       /\ isSome(loose) <=> g.some
       /\ isSome(strict) => strict = loose
       /\ (route.ast = ArticlesSlug /\ arg.path = "/articles/123")
            => result = Some(Single("slug", Str("123")))
       /\ (route.ast = ArticlesSlug /\ arg.path = "/articles/123/comments")
            => result = IF route.end THEN None ELSE Some(Single("slug", Str("123")))

C1_Witness ==
  /\ op = "match" /\ ~route.end /\ route.ast = ArticlesSlug
  /\ arg.path = "/articles/123/comments"
  /\ result = Some(Single("slug", Str("123")))

\* C2: a Literal concatenated with a Prefix-wrapped capture forms one compound
\* group matched against a single segment: literal('foo') . prefix('-',
\* integer('fooId')) matches '/foo-123' as {fooId: '123'} and generates
\* '/foo-123' from it.
C2_CompoundGroup ==
  /\ (op = "match" /\ route.ast = FooPrefixed /\ arg.path = "/foo-123")
       => /\ Len(getAstSegments(route.ast)) = 1
          /\ result = Some(Single("fooId", Str("123")))
  /\ (op = "interpolate" /\ route.ast = FooPrefixed
        /\ arg.params = Single("fooId", Str("123")))
       => result = [tag |-> "Path", value |-> "/foo-123"]

\* the AST is built from Literal, Param and Concat nodes only
RECURSIVE onlyLiteralParamConcat(_)
onlyLiteralParamConcat(ast) ==
  CASE ast.tag \in {"Literal", "Param"} -> TRUE
    [] ast.tag = "Concat" ->
         onlyLiteralParamConcat(ast.left) /\ onlyLiteralParamConcat(ast.right)
    [] OTHER -> FALSE

\* the map gives every Param of the AST a non-empty string without a '/'
validParams(ast, params) ==
  /\ DOMAIN params = keysOf(ast, 0).keys
  /\ \A k \in DOMAIN params :
       /\ "str" \in DOMAIN params[k]
       /\ params[k].str # ""
       /\ indexOf(params[k].str, "/") = 0

\* C3: for a route of Literal, Param and Concat nodes and a valid parameter
\* map P, matching the string interpolate(P) returns succeeds and gives P.
C3_RoundTrip ==
  (op = "interpolate" /\ onlyLiteralParamConcat(route.ast)
     /\ validParams(route.ast, arg.params))
    => /\ result # ThrewError
       /\ match(route, result.value) = Some(arg.params)

\* the declared query params of the route under test
Declared == route.ast.params

\* the entries of the query whose key is declared
RECURSIVE declaredOnly(_, _)
declaredOnly(query, keys) ==
  IF Len(query) = 0 THEN <<>>
  ELSE (IF query[1][1] \in keys THEN <<query[1]>> ELSE <<>>) \o declaredOnly(Tail(query), keys)

\* the declared query param alone, matched against the query
paramMatches(qp, query) ==
  runMatcher(simpleAstToQueryMatcher(qp.key, qp.value, 0, FALSE, FALSE).matcher,
             <<>>, query).some

\* C5: with a query block, match succeeds only if every declared query param
\* matches; a required Param whose key the query lacks gives no match; an
\* Optional Param whose key the query lacks leaves a match without that param;
\* keys of the query that are not declared do not change the result.
C5_QueryParams ==
  (Matched /\ route.ast.tag = "QueryParams") =>
    /\ isSome(result) => \A i \in 1..Len(Declared) : paramMatches(Declared[i], CallQuery)
    /\ \A i \in 1..Len(Declared) :
         /\ (Declared[i].value.tag = "Param" /\ ~has(CallQuery, Declared[i].key))
              => result = None
         /\ (Declared[i].value.tag = "Optional" /\ Declared[i].value.param.tag = "Param"
               /\ ~has(CallQuery, Declared[i].key) /\ isSome(result))
              => Declared[i].value.param.param \notin DOMAIN result.value
    /\ result = applyMatcher(astToMatcher(route.ast, route.end), CallSegs,
                             declaredOnly(CallQuery, paramKeys(Declared)))

C5_Witness ==
  /\ Matched /\ route.ast = SearchRoute
  /\ arg.path = "/?x=1&q=test"
  /\ result = Some(Single("query", Str("test")))

C9_Decode ==
  (op = "decode" /\ result # ThrewError) =>
    LET m == match(route, arg.path)
    IN /\ (result.tag = "Failure" /\ result.error.tag = "RouteNotMatched") <=> ~isSome(m)
       /\ (result.tag = "Failure" /\ result.error.tag = "RouteDecodeError")
            <=> (isSome(m) /\ arg.verdict = "reject")
       /\ (isSome(m) /\ arg.verdict = "reject")
            => result.error = [tag |-> "RouteDecodeError", route |-> route.ast,
                               issue |-> decodeSchema("reject", m.value).error.issue]
       /\ (isSome(m) /\ arg.verdict = "accept")
            => result = [tag |-> "Success", value |-> decodeSchema("accept", m.value).value,
                         validated |-> TRUE]
       /\ ~isSome(m) => ~result.validated

C9_Witness ==
  /\ op = "decode" /\ route.ast = ArticlesSlug /\ arg.path = "/articles/123"
  /\ arg.verdict = "reject"
  /\ result.tag = "Failure" /\ result.error.tag = "RouteDecodeError"

(***************************************************************************)
(* The parser.  parse returns an AST or throws.                            *)
(***************************************************************************)
isThrown(x) == x = ThrewError

\* asts.reduce((acc, ast) => new Concat(acc, ast)) of a non-empty list
RECURSIVE concatAllFrom(_, _)
concatAllFrom(acc, asts) ==
  IF Len(asts) = 0 THEN acc ELSE concatAllFrom(Concat(acc, asts[1]), Tail(asts))

concatAll(asts) == concatAllFrom(asts[1], Tail(asts))

RECURSIVE parseParam(_)
parseParam(p) ==
  IF endsWith(p, "?") THEN Optional(parseParam(sliceBetween(p, 0, 1)))
  ELSE IF endsWith(p, "*") THEN ZeroOrMore(parseParam(sliceBetween(p, 0, 1)))
  ELSE IF endsWith(p, "+") THEN OneOrMore(parseParam(sliceBetween(p, 0, 1)))
  ELSE Param(p)

parsePrefix(part) ==
  LET pieces == split(sliceBetween(part, 1, 1), ":")
  IN IF Len(pieces) = 1 THEN Prefix(pieces[1], UnnamedParam)
     ELSE Prefix(pieces[1], parseParam(pieces[2]))

parsePathPart(part) ==
  IF startsWith(part, "{") THEN parsePrefix(part)
  ELSE IF part = PathUnnamed \/ part = "*" THEN UnnamedParam
  ELSE IF startsWith(part, ":") THEN parseParam(sliceFrom(part, 1))
  ELSE Literal(part)

\* the last index of the character c in s, 0 when absent
RECURSIVE lastIndexOf(_, _)
lastIndexOf(s, c) ==
  IF Len(s) = 0 THEN 0
  ELSE IF SubSeq(s, Len(s), Len(s)) = c THEN Len(s)
  ELSE lastIndexOf(sliceBetween(s, 0, 1), c)

\* segment.split(/(\{.+\})/g).map((x) => (x === '' ? '/' : x)): the greedy
\* match runs from the first '{' that has a '}' two or more places after it to
\* the last '}', and split keeps the captured match between the two sides
splitByPrefixes(segment) ==
  LET open == indexOf(segment, "{")
      close == lastIndexOf(segment, "}")
      slashIfEmpty(x) == IF x = "" THEN "/" ELSE x
  IN IF open = 0 \/ close < open + 2 THEN <<slashIfEmpty(segment)>>
     ELSE << slashIfEmpty(SubSeq(segment, 1, open - 1)),
             SubSeq(segment, open, close),
             slashIfEmpty(sliceFrom(segment, close)) >>

parsePathSegment(segment) ==
  LET pieces == splitByPrefixes(segment)
      parts == [i \in 1..Len(pieces) |-> parsePathPart(pieces[i])]
  IN IF Len(parts) = 1 THEN parts[1] ELSE concatAll(parts)

\* parsePathSegment of a value that a param without '=' leaves undefined throws
parseQueryParam(p) ==
  LET pieces == split(p, "=")
  IN IF Len(pieces) = 1 THEN ThrewError
     ELSE QueryParam(pieces[1],
                     IF pieces[2] = "" THEN Literal("") ELSE parsePathSegment(pieces[2]))

parseQuery(previous, queryString) ==
  LET qs == IF startsWith(queryString, "?") THEN sliceFrom(queryString, 1) ELSE queryString
      pieces == split(qs, "&")
      params == [i \in 1..Len(pieces) |-> parseQueryParam(pieces[i])]
  IN IF \E i \in 1..Len(params) : isThrown(params[i]) THEN ThrewError
     ELSE QueryParams(previous, params)

\* the separator path.split is given: a backslash followed by a question mark
QuerySeparator == "\\?"

splitByQueryParams(p) ==
  LET path == removeLeadingSlash(removeTrailingSlash(p))
      pieces == split(path, QuerySeparator)
      pathname == IF endsWith(pieces[1], "\\") THEN sliceBetween(pieces[1], 0, 1)
                  ELSE pieces[1]
  IN IF path = "" THEN [segments |-> <<>>, queryString |-> ""]
     ELSE [segments |-> dropEmptyEnds(split(pathname, "/")),
           queryString |-> IF Len(pieces) > 1 THEN pieces[2] ELSE ""]

parse(p) ==
  LET sq == splitByQueryParams(p)
      allSegments == [i \in 1..Len(sq.segments) |-> parsePathSegment(sq.segments[i])]
      ast == IF Len(allSegments) = 0 THEN Literal("/") ELSE concatAll(allSegments)
  IN IF trim(sq.queryString) = "" THEN ast ELSE parseQuery(ast, sq.queryString)

(***************************************************************************)
(* Parsing a pattern into a route, then calling the route.                 *)
(***************************************************************************)
SearchPattern == "/search?q=:query&page=:page?"

Patterns ==
  { SearchPattern, "/search\\?q=:query&page=:page?", "/", "/articles/:slug", "/articles/:slug/",
    "{user-:id}", "/foo{-:fooId}", "/foo/:rest*", "/foo/:rest+", "/articles/:id?",
    "/search\\?q=:query", "/search\\?", "/search\\?q", "/foo/*",
    "/search\\?q=:query&q=:page", "{user-:*}", "{foo}" }

InitParse ==
  /\ pattern \in Patterns
  /\ route = make(separator, FALSE)
  /\ op = "pattern"
  /\ arg = Nil
  /\ result = Nil
  /\ operands = <<>>
  /\ routes = <<>>

\* Route.parse(pattern, {end})
Parse(end) ==
  /\ op = "pattern"
  /\ arg' = [end |-> end]
  /\ IF isThrown(parse(pattern))
     THEN /\ op' = "threw"
          /\ result' = ThrewError
          /\ route' = route
     ELSE /\ op' = "make"
          /\ result' = Nil
          /\ route' = make(parse(pattern), end)
  /\ UNCHANGED <<operands, pattern, routes>>

NextParse ==
  \/ \E end \in BOOLEAN : Parse(end)
  \/ \E path \in Paths : Match(path)

SpecParse == InitParse /\ [][NextParse]_vars

\* C6: parse splits the pattern at the first '?': '/search?q=:query&page=:page?'
\* gives the path literal 'search' with the declared query params q (Param
\* query) and page (Optional Param page); it matches '/search?q=test' as
\* {query: 'test'} and '/search?q=test&page=2' as {query: 'test', page: '2'},
\* and does not match '/search'.
C6_ParseQuery ==
  pattern = SearchPattern =>
    /\ op = "make" => route.ast = QueryParams(Literal("search"), SearchParams)
    /\ (op = "match" /\ arg.path = "/search?q=test")
         => result = Some(Single("query", Str("test")))
    /\ (op = "match" /\ arg.path = "/search?q=test&page=2")
         => result = Some(assign(Single("query", Str("test")), Single("page", Str("2"))))
    /\ (op = "match" /\ arg.path = "/search") => result = None

(***************************************************************************)
(* Concatenating ASTs.                                                     *)
(***************************************************************************)
LeftQuery == QueryParams(separator, SearchParams)
RightQuery ==
  QueryParams(Literal("a"),
              <<QueryParam("page", Param("p")), QueryParam("sort", optional(param("sort")))>>)

ConcatAsts ==
  { Literal(""), separator, Literal("a"), param("x"), optional(param("y")), integer("n"),
    LeftQuery, RightQuery,
    QueryParams(separator, <<QueryParam("k", optional(param("v")))>>) }

ConcatPaths ==
  {"/", "/a", "/a/a", "/a//", "/a/a/a", "/a?q=1", "/a/a?q=1&page=2", "/?k=1", "//a"}

InitConcat ==
  /\ operands \in [1..3 -> ConcatAsts]
  /\ op = "operands"
  /\ route = make(separator, FALSE)
  /\ arg = Nil
  /\ result = Nil
  /\ pattern = ""
  /\ routes = <<>>

\* AST.concat(left, right) of the first two operands
ConcatPair ==
  /\ op = "operands"
  /\ op' = "concat"
  /\ result' = concat(operands[1], operands[2])
  /\ UNCHANGED <<route, arg, operands, pattern, routes>>

\* what the matcher compiled from an AST returns for a path
matchAst(ast, end, path) ==
  LET m == astToMatcher(ast, end)
  IN IF m.threw THEN ThrewError ELSE matchPath(m, path)

\* the three operands concatenated in both nestings, compiled, and matched
MatchBoth(path, end) ==
  /\ op = "operands"
  /\ op' = "assoc"
  /\ arg' = [path |-> path, end |-> end]
  /\ result' =
       [left |-> matchAst(concat(concat(operands[1], operands[2]), operands[3]), end, path),
        right |-> matchAst(concat(operands[1], concat(operands[2], operands[3])), end, path)]
  /\ UNCHANGED <<route, operands, pattern, routes>>

\* route.optional(), .oneOrMore(), .zeroOrMore(), .prefix(p) and
\* Route.withSchema(route, schema): the AST of the route each of them makes
applyWrapper(wrapper, ast) ==
  CASE wrapper = "optional" -> optional(ast)
    [] wrapper = "oneOrMore" -> oneOrMore(ast)
    [] wrapper = "zeroOrMore" -> zeroOrMore(ast)
    [] wrapper = "prefix" -> prefix("-", ast)
    [] wrapper = "withSchema" -> WithSchema(ast, "Int")

\* a wrapper applied to the first operand, and the route that made
\* concatenated with the second operand
WrapConcat(wrapper) ==
  /\ op = "operands"
  /\ op' = "wrap"
  /\ arg' = [wrapper |-> wrapper]
  /\ result' = concat(applyWrapper(wrapper, operands[1]), operands[2])
  /\ UNCHANGED <<route, operands, pattern, routes>>

\* a route concat that always takes the options of the right route
concatRoutesRightOptions(left, right) == make(concat(left.ast, right.ast), right.end)

\* Route.concat(left, right): dontMergeTags decides whose options are kept
concatRoutes(left, right) ==
  make(concat(left.ast, right.ast),
       IF right.ast.tag \in {"WithSchema", "QueryParams", "QueryParam"}
       THEN left.end ELSE right.end)

\* the routes of the first two operands, made with the two end flags, concatenated
ConcatRoutes(leftEnd, rightEnd) ==
  /\ op = "operands"
  /\ op' = "concatRoutes"
  /\ arg' = [leftEnd |-> leftEnd, rightEnd |-> rightEnd]
  /\ result' = concatRoutes(make(operands[1], leftEnd), make(operands[2], rightEnd))
  /\ UNCHANGED <<route, operands, pattern, routes>>

NextConcat ==
  \/ ConcatPair
  \/ \E leftEnd \in BOOLEAN, rightEnd \in BOOLEAN : ConcatRoutes(leftEnd, rightEnd)
  \/ \E path \in ConcatPaths, end \in BOOLEAN : MatchBoth(path, end)
  \/ \E wrapper \in {"optional", "oneOrMore", "zeroOrMore", "prefix", "withSchema"} :
       WrapConcat(wrapper)

SpecConcat == InitConcat /\ [][NextConcat]_vars

\* C4: the matchers compiled from concat(concat(a, b), c) and from
\* concat(a, concat(b, c)) accept the same inputs, for all a, b, c, query
\* blocks and the empty literals '' and '/' among them.
C4_Associative ==
  op = "assoc" => (isSome(result.left) <=> isSome(result.right))

\* the keys of a list of QueryParam nodes, in order
keyList(ps) == [i \in 1..Len(ps) |-> ps[i].key]

\* C8: concatenating two ASTs that both declare a query block gives one query
\* block; a key declared on both sides appears once, with the right-hand
\* definition; the order is the left-only keys in their order, then all the
\* right-hand keys in theirs.
C8_QueryMerge ==
  (op = "concat" /\ operands[1].tag = "QueryParams" /\ operands[2].tag = "QueryParams") =>
    LET l == operands[1].params
        r == operands[2].params
        out == result.params
    IN /\ result.tag = "QueryParams"
       /\ result.previous.tag # "QueryParams"
       /\ keyList(out) = SelectSeq(keyList(l), LAMBDA k : k \notin paramKeys(r)) \o keyList(r)
       /\ \A i, j \in 1..Len(out) : out[i].key = out[j].key => i = j
       /\ \A j \in 1..Len(r) : \E i \in 1..Len(out) : out[i] = r[j]
       /\ \A i \in 1..Len(l) :
            l[i].key \notin paramKeys(r) => \E j \in 1..Len(out) : out[j] = l[i]

C8_Witness ==
  /\ op = "concat" /\ operands[1] = LeftQuery /\ operands[2] = RightQuery
  /\ result.params = <<SearchParams[1], RightQuery.params[1], RightQuery.params[2]>>

(***************************************************************************)
(* The path template of a route, and sorting routes by it.                 *)
(***************************************************************************)
RECURSIVE toPath_(_)
toPath_(ast) ==
  CASE ast.tag = "Literal" -> ast.literal
    [] ast.tag = "UnnamedParam" -> PathUnnamed
    [] ast.tag = "Param" -> PathParam(ast.param)
    [] ast.tag = "ZeroOrMore" -> PathZeroOrMore(toPath_(ast.param))
    [] ast.tag = "OneOrMore" -> PathOneOrMore(toPath_(ast.param))
    [] ast.tag = "Optional" -> PathOptional(toPath_(ast.param))
    [] ast.tag = "Prefix" -> PathPrefix(ast.prefix, toPath_(ast.param))
    [] ast.tag = "Concat" -> pathJoin(<<toPath_(ast.left), toPath_(ast.right)>>)
    [] ast.tag = "WithSchema" -> toPath_(ast.ast)
    [] ast.tag = "QueryParams" ->
         pathJoin(<<toPath_(ast.previous),
                    PathQueryParams([i \in 1..Len(ast.params) |->
                       PathQueryParam(ast.params[i].key, toPath_(ast.params[i].value))])>>)

toPath(ast) == pathJoin(<<toPath_(ast)>>)

\* getPath(route), the value of route.path
getPath(r) == toPath(r.ast)

\* a complexity that counts the markers of the empty part too
guessComplexityOfMarkers(part) == countChar(part, ":") + countChar(part, "{")

guessComplexity(part) ==
  IF part = "" THEN -1 ELSE countChar(part, ":") + countChar(part, "{")

\* the comparison by the number of parts alone
compareLength(aParts, bParts) ==
  IF Len(aParts) = Len(bParts) THEN 0
  ELSE IF Len(aParts) > Len(bParts) THEN -1 ELSE 1

\* the loop of Order over the parts both paths have, from part i on
RECURSIVE compareParts(_, _, _)
compareParts(aParts, bParts, i) ==
  IF i > Len(aParts) \/ i > Len(bParts) THEN compareLength(aParts, bParts)
  ELSE IF aParts[i] = bParts[i] THEN compareParts(aParts, bParts, i + 1)
  ELSE LET aComplexity == guessComplexity(aParts[i])
           bComplexity == guessComplexity(bParts[i])
       IN IF aComplexity = bComplexity THEN compareParts(aParts, bParts, i + 1)
          ELSE IF aComplexity = 0 THEN -1
          ELSE IF bComplexity = 0 THEN 1
          ELSE IF bComplexity > aComplexity THEN -1
          ELSE 1

\* an order that looks at the number of parts only
OrderByLength(a, b) == compareLength(split(getPath(a), "/"), split(getPath(b), "/"))

\* an order in which the first argument wins whenever the paths differ
OrderFirstWins(a, b) == IF getPath(a) = getPath(b) THEN 0 ELSE -1

Order(a, b) == compareParts(split(getPath(a), "/"), split(getPath(b), "/"), 1)

\* one step of a stable sort: x goes behind every element that does not
\* compare greater than it
RECURSIVE insertSorted(_, _)
RECURSIVE insertSortedBeforeTies(_, _)

\* an unstable step: x goes in front of the elements it ties with
insertSortedBeforeTies(x, sorted) ==
  IF Len(sorted) = 0 THEN <<x>>
  ELSE IF Order(sorted[Len(sorted)], x) >= 0
       THEN insertSortedBeforeTies(x, SubSeq(sorted, 1, Len(sorted) - 1))
              \o <<sorted[Len(sorted)]>>
       ELSE sorted \o <<x>>

insertSorted(x, sorted) ==
  IF Len(sorted) = 0 THEN <<x>>
  ELSE IF Order(sorted[Len(sorted)], x) > 0
       THEN insertSorted(x, SubSeq(sorted, 1, Len(sorted) - 1)) \o <<sorted[Len(sorted)]>>
       ELSE sorted \o <<x>>

\* sortBy(Order): a sorted copy, equal elements in their input order
RECURSIVE sortBy(_)
sortBy(xs) ==
  IF Len(xs) = 0 THEN <<>>
  ELSE insertSorted(xs[Len(xs)], sortBy(SubSeq(xs, 1, Len(xs) - 1)))

sortRoutes(rs) == sortBy(rs)

Users == make(literal("users"), FALSE)
UsersId == make(concat(literal("users"), param("id")), FALSE)
UsersSettings == make(concat(literal("users"), literal("settings")), FALSE)
UsersIdPosts == make(concat(literal("users"), concat(param("id"), literal("posts"))), FALSE)

\* the lists handed to sortRoutes: at most MaxRoutes of these routes
RouteLists ==
  UNION {[1..n -> {Users, UsersId, UsersSettings, UsersIdPosts, make(separator, FALSE),
                   make(literal("posts"), FALSE),
                   make(concat(literal("users"), prefix("user-", param("id"))), FALSE)}] :
           n \in 0..MaxRoutes}

InitSort ==
  /\ routes \in RouteLists
  /\ op = "routes"
  /\ route = make(separator, FALSE)
  /\ arg = Nil
  /\ result = Nil
  /\ operands = <<>>
  /\ pattern = ""

\* sortRoutes(routes)
Sort ==
  /\ op = "routes"
  /\ op' = "sort"
  /\ result' = sortRoutes(routes)
  /\ UNCHANGED <<route, arg, operands, pattern, routes>>

\* Order(a, b) for every two routes of the list
Compare ==
  /\ op = "routes"
  /\ Len(routes) >= 2
  /\ op' = "compare"
  /\ result' = [i \in 1..Len(routes) |-> [j \in 1..Len(routes) |-> Order(routes[i], routes[j])]]
  /\ UNCHANGED <<route, arg, operands, pattern, routes>>

SpecSort == InitSort /\ [][Sort \/ Compare]_vars

\* C10: sortRoutes of the routes /users, /users/:id, /users/settings and
\* /users/:id/posts, in whatever order they are given, returns
\* /users/settings, /users/:id/posts, /users/:id, /users.
C10_SortExample ==
  (/\ op = "sort"
   /\ Len(routes) = 4
   /\ {routes[i] : i \in 1..4} = {Users, UsersId, UsersSettings, UsersIdPosts})
    => /\ result = <<UsersSettings, UsersIdPosts, UsersId, Users>>
       /\ [i \in 1..4 |-> getPath(result[i])]
            = <<"/users/settings", "/users/:id/posts", "/users/:id", "/users">>

C10_Witness ==
  /\ op = "sort"
  /\ routes = <<UsersId, Users, UsersSettings, UsersIdPosts>>
  /\ result = <<UsersSettings, UsersIdPosts, UsersId, Users>>

\* C11: sortRoutes is idempotent: sorting the list sortRoutes returned gives
\* that same list again.
C11_SortIdempotent ==
  op = "sort" => sortRoutes(result) = result

\* a list with two routes that tie (/users and /posts) and out of order
C11_Witness ==
  /\ op = "sort"
  /\ routes = <<make(literal("posts"), FALSE), UsersId, Users, UsersSettings>>
  /\ result = <<UsersSettings, UsersId, make(literal("posts"), FALSE), Users>>
  /\ sortRoutes(result) = result

\* C12: Route.home (the separator with end=true) matches exactly the inputs
\* whose path has no segment, whatever the query string, and Route.separator
\* (end=false) matches every input; both give the empty parameter map.
C12_HomeSeparator ==
  (Matched /\ route.ast = separator) =>
    result = IF route.end /\ Len(CallSegs) > 0 THEN None ELSE Some(EmptyMap)

\* home called on the root path with a query string
C12_Witness ==
  /\ Matched /\ route.ast = separator /\ route.end
  /\ arg.path = "/?q=test"
  /\ result = Some(EmptyMap)

\* the AST holds a query block somewhere
RECURSIVE hasQueryParams(_)
hasQueryParams(ast) ==
  CASE ast.tag = "QueryParams" -> TRUE
    [] ast.tag = "Concat" -> hasQueryParams(ast.left) \/ hasQueryParams(ast.right)
    [] ast.tag \in {"Optional", "OneOrMore", "ZeroOrMore", "Prefix"} -> hasQueryParams(ast.param)
    [] ast.tag = "WithSchema" -> hasQueryParams(ast.ast)
    [] OTHER -> FALSE

\* the node under the schema wrappers
RECURSIVE unwrapped(_)
unwrapped(ast) == IF ast.tag = "WithSchema" THEN unwrapped(ast.ast) ELSE ast

\* a group of one Literal, one capture, one prefixed capture or one optional capture
plainGroup(group) ==
  /\ Len(group) = 1
  /\ LET node == unwrapped(group[1])
     IN \/ node.tag \in {"Literal", "Param", "UnnamedParam"}
        \/ /\ node.tag \in {"Prefix", "Optional"}
           /\ unwrapped(node.param).tag \in {"Param", "UnnamedParam"}

\* the segments conform to the groups: a Literal meets an equal segment, a
\* capture a non-empty one, a prefixed capture one that starts with the prefix
\* and goes on, and an optional capture takes the next segment if there is one
RECURSIVE conforms(_, _)
conforms(groups, segs) ==
  IF Len(groups) = 0 THEN TRUE
  ELSE LET node == unwrapped(groups[1][1])
       IN IF node.tag = "Optional"
          THEN conforms(Tail(groups), IF Len(segs) = 0 THEN segs ELSE Tail(segs))
          ELSE /\ Len(segs) > 0
               /\ CASE node.tag = "Literal" -> segs[1] = node.literal
                    [] node.tag = "Prefix" ->
                         startsWith(segs[1], node.prefix) /\ Len(segs[1]) > Len(node.prefix)
                    [] OTHER -> segs[1] # ""
               /\ conforms(Tail(groups), Tail(segs))

RECURSIVE paramsOf(_)
paramsOf(p) ==
  IF p.tag = "Literal" THEN {}
  ELSE IF p.kind = "getParam" THEN {p}
  ELSE IF p.kind \in {"prefix", "queryParam"} THEN paramsOf(p.inner)
  ELSE UNION {paramsOf(p.parts[k]) : k \in 1..Len(p.parts)}

\* the getParam parts of the whole compiled interpolation
allParams(i) ==
  IF i.threw \/ i.tag = "Literal" THEN {}
  ELSE UNION {paramsOf(i.parts[k]) : k \in 1..Len(i.parts)}

\* the value given for the key is absent or the empty string
missing(p, params) == p.key \notin DOMAIN params \/ params[p.key] = Str("")

\* the value given for the key is the empty list
emptyList(p, params) == p.key \in DOMAIN params /\ params[p.key] = List(<<>>)

isQueryPart(p) == p.tag = "Param" /\ p.kind = "queryParams"

\* the renderings of the path groups, each without its enclosing slashes
groupRenderings(parts, params) ==
  LET groups == SelectSeq(parts, LAMBDA p : ~isQueryPart(p))
  IN [k \in 1..Len(groups) |->
        removeLeadingSlash(removeTrailingSlash(renderPart(groups[k], params).value))]

\* the key=value entry of one declared query key, "" when its value renders empty
queryEntry(p, params) ==
  IF p.tag = "Literal" THEN p.value
  ELSE LET v == renderPart(p.inner, params).value
       IN IF v = "" THEN "" ELSE p.key \o "=" \o v

\* the entries of the query block of the compiled parts, in declaration order
queryEntries(parts, params) ==
  LET blocks == SelectSeq(parts, LAMBDA p : isQueryPart(p))
  IN IF Len(blocks) = 0 THEN <<>>
     ELSE [k \in 1..Len(blocks[1].parts) |-> queryEntry(blocks[1].parts[k], params)]

\* the string the claim describes
joined(parts, params) ==
  LET groups == nonEmpty(groupRenderings(parts, params))
      entries == nonEmpty(queryEntries(parts, params))
      pathPart == IF Len(groups) = 0 THEN "" ELSE "/" \o join(groups, "/")
      queryPart == IF Len(entries) = 0 THEN "" ELSE "?" \o join(entries, "&")
  IN IF pathPart \o queryPart = "" THEN "/" ELSE pathPart \o queryPart

\* C15: when interpolate returns, its string is the non-empty group renderings
\* joined with '/' ('/' when every group renders empty), followed by '?' and
\* the '&'-joined key=value entries whose value renders non-empty, with no '?'
\* when no entry renders; an AST with no parameter node compiles to a literal
\* and renders the same constant string for every map.
C15_Joining ==
  (op = "interpolate" /\ result # ThrewError) =>
    LET i == getInterpolate(route)
    IN /\ i.tag = "Param" => result.value = joined(i.parts, arg.params)
       /\ keysOf(route.ast, 0).keys = {} =>
            /\ i.tag = "Literal"
            /\ result.value = i.value
            /\ result.value = pathJoin(<<toPath(route.ast)>>)

\* a path group and one of two query entries rendered
C15_Witness ==
  /\ op = "interpolate"
  /\ route.ast = concat(literal("articles"), queryParams(SearchParams))
  /\ arg.params = Single("query", Str("123"))
  /\ result = [tag |-> "Path", value |-> "/articles?q=123"]

(***************************************************************************)
(* C16: the capture of a repetition on the path.                           *)
(***************************************************************************)
\* the node is a OneOrMore or ZeroOrMore capture
isRepetition(ast) == ast.tag \in {"OneOrMore", "ZeroOrMore"}

\* the last group of the route is a repetition
lastIsRepetition(ast) ==
  LET groups == getAstSegments(ast)
  IN /\ Len(groups) > 0
     /\ Len(groups[Len(groups)]) = 1
     /\ isRepetition(groups[Len(groups)][1])

\* the groups before the last one, run on the cursor of the call
frontRun(matcher) ==
  runAll(SubSeq(matcher.matchers, 1, Len(matcher.matchers) - 1), EmptyMap, CallSegs, CallQuery)

\* C16: a repetition that matches consumes every remaining segment: when the
\* groups before a last repetition group match and leave one or more segments,
\* the repetition captures exactly those segments, the cursor is empty after
\* it, and the route matches, with end=true as with end=false.
C16_Greedy ==
  (Matched /\ lastIsRepetition(route.ast)) =>
    LET matcher == getMatch(route)
        front == frontRun(matcher)
        last == runMatcher(matcher.matchers[Len(matcher.matchers)], front.segs, front.query)
    IN (front.some /\ Len(front.segs) >= 1) =>
         /\ last.some
         /\ last.segs = <<>>
         /\ isSome(result)
         /\ result.value["rest"] = List(front.segs)

(***************************************************************************)
(* C17: a repetition group that is not the last path group.                *)
(***************************************************************************)
\* a Literal or a required Param group follows a repetition group
repetitionNotLast(ast) ==
  LET groups == getAstSegments(ast)
  IN \E i \in 1..Len(groups), j \in 1..Len(groups) :
       /\ i < j
       /\ Len(groups[i]) = 1 /\ isRepetition(groups[i][1])
       /\ Len(groups[j]) = 1 /\ groups[j][1].tag \in {"Literal", "Param"}

\* C17: a repetition group leaves nothing for the groups after it: a route in
\* which a Literal or a required Param group follows a repetition group
\* matches no input at all, and no later group alters the list the repetition
\* captured, which is the cursor as the repetition found it.
C17_NothingLeft ==
  (Matched /\ repetitionNotLast(route.ast)) =>
    /\ result = None
    /\ isSome(result) => result.value["rest"] = List(CallSegs)

(***************************************************************************)
(* C18: the place of the QueryParams node in a constructed AST.            *)
(***************************************************************************)
\* the number of QueryParams nodes in an AST
RECURSIVE countQueryParams(_)
RECURSIVE countInValues(_)
countInValues(params) ==
  IF Len(params) = 0 THEN 0
  ELSE countQueryParams(params[1].value) + countInValues(Tail(params))

countQueryParams(ast) ==
  CASE ast.tag \in {"Optional", "OneOrMore", "ZeroOrMore", "Prefix"} ->
         countQueryParams(ast.param)
    [] ast.tag = "WithSchema" -> countQueryParams(ast.ast)
    [] ast.tag = "Concat" -> countQueryParams(ast.left) + countQueryParams(ast.right)
    [] ast.tag = "QueryParams" ->
         1 + countQueryParams(ast.previous) + countInValues(ast.params)
    [] OTHER -> 0

\* C18: an AST made by concat from the ASTs of constructed routes, the
\* wrappers optional, oneOrMore, zeroOrMore, prefix and withSchema among the
\* constructors, holds at most one QueryParams node, and that node is the root.
C18_QueryRoot ==
  op \in {"concat", "wrap"} =>
    /\ countQueryParams(result) <= 1
    /\ countQueryParams(result) = 1 => result.tag = "QueryParams"

(***************************************************************************)
(* C19: the keys of a QueryParams node.                                    *)
(***************************************************************************)
\* no key is declared twice in the list of QueryParam nodes
distinctKeys(params) ==
  \A i \in 1..Len(params), j \in 1..Len(params) :
    params[i].key = params[j].key => i = j

\* C19: the QueryParams node parse produces from a pattern has pairwise
\* distinct keys.
C19_DistinctKeys ==
  (op = "make" /\ route.ast.tag = "QueryParams") => distinctKeys(route.ast.params)

\* the QueryParams node concat produces from operands with distinct keys has
\* pairwise distinct keys
C19_ConcatKeeps ==
  (op = "concat" /\ result.tag = "QueryParams") => distinctKeys(result.params)

(***************************************************************************)
(* C20: the keys of the unnamed parameters.                                *)
(***************************************************************************)
\* the keys a compiled matcher writes, in the order of its parts
RECURSIVE matcherKeys(_)
RECURSIVE matcherKeysAll(_)
matcherKeysAll(matchers) ==
  IF Len(matchers) = 0 THEN <<>>
  ELSE matcherKeys(matchers[1]) \o matcherKeysAll(Tail(matchers))

matcherKeys(m) ==
  CASE m.kind \in {"Literal", "QueryLiteral"} -> <<>>
    [] m.kind \in {"Prefix", "QueryPrefix"} -> matcherKeys(m.inner)
    [] m.kind = "ParamByKey" -> <<m.key>>
    [] m.kind = "QueryParamByKey" -> <<m.outKey>>
    [] m.kind = "QueryParams" -> matcherKeysAll(m.matchers)
    [] m.kind = "Compound" -> matcherKeysAll(m.parts)

\* the keys a compiled interpolation part reads, in the order of its parts
RECURSIVE partKeys(_)
RECURSIVE partKeysAll(_)
partKeysAll(parts) ==
  IF Len(parts) = 0 THEN <<>>
  ELSE partKeys(parts[1]) \o partKeysAll(Tail(parts))

partKeys(p) ==
  IF p.tag = "Literal" THEN <<>>
  ELSE IF p.kind = "getParam" THEN <<p.key>>
  ELSE IF p.kind \in {"prefix", "queryParam"} THEN partKeys(p.inner)
  ELSE partKeysAll(p.parts)

\* the UnnamedParam nodes of an AST, counted
RECURSIVE countUnnamed(_)
RECURSIVE countUnnamedValues(_)
countUnnamedValues(params) ==
  IF Len(params) = 0 THEN 0
  ELSE countUnnamed(params[1].value) + countUnnamedValues(Tail(params))

countUnnamed(ast) ==
  CASE ast.tag = "UnnamedParam" -> 1
    [] ast.tag \in {"Optional", "OneOrMore", "ZeroOrMore", "Prefix"} -> countUnnamed(ast.param)
    [] ast.tag = "WithSchema" -> countUnnamed(ast.ast)
    [] ast.tag = "Concat" -> countUnnamed(ast.left) + countUnnamed(ast.right)
    [] ast.tag = "QueryParams" -> countUnnamed(ast.previous) + countUnnamedValues(ast.params)
    [] OTHER -> 0

\* C20: the unnamed params of the route have the keys 0, 1, 2, ... in the
\* order of the AST, the matcher and the interpolator compiled from the AST
\* use the same keys in the same order, in path groups and in query values,
\* and interpolate accepts the map a successful match returned.
C20_UnnamedKeys ==
  (Matched /\ isSome(result) /\ countUnnamed(route.ast) > 0) =>
    LET m == getMatch(route)
        i == getInterpolate(route)
        keys == matcherKeysAll(m.matchers)
        unnamedKeys == SelectSeq(keys, LAMBDA k : k \in {unnamedKey(n) : n \in 0..3})
    IN /\ unnamedKeys = [n \in 1..countUnnamed(route.ast) |-> unnamedKey(n - 1)]
       /\ ~i.threw
       /\ i.tag = "Param" /\ partKeysAll(i.parts) = keys
       /\ ~applyInterpolation(i, result.value).threw

(***************************************************************************)
(* Several calls on one route: the compiled matcher and interpolator are   *)
(* kept in __match and __interpolate from the first call on.               *)
(***************************************************************************)
\* a later call that hands back the earlier result when __match is set
MatchAgainStale(path) ==
  /\ op \in {"match", "interpolate"}
  /\ \E m \in {IF route.match = NotCompiled THEN getMatch(route) ELSE route.match} :
       /\ op' = "match"
       /\ arg' = [path |-> path, cached |-> route.match # NotCompiled]
       /\ route' = IF m.threw THEN route ELSE [route EXCEPT !.match = m]
       /\ result' = IF m.threw THEN ThrewError
                    ELSE IF route.match # NotCompiled /\ op = "match" THEN result
                    ELSE matchPath(m, path)
       /\ UNCHANGED <<operands, pattern, routes>>

\* route.match(path) on a route that was called before
MatchAgain(path) ==
  /\ op \in {"match", "interpolate"}
  /\ \E m \in {IF route.match = NotCompiled THEN getMatch(route) ELSE route.match} :
       /\ op' = "match"
       /\ arg' = [path |-> path, cached |-> route.match # NotCompiled]
       /\ route' = IF m.threw THEN route ELSE [route EXCEPT !.match = m]
       /\ result' = IF m.threw THEN ThrewError ELSE matchPath(m, path)
       /\ UNCHANGED <<operands, pattern, routes>>

\* route.interpolate(params) on a route that was called before
InterpolateAgain(params) ==
  /\ op \in {"match", "interpolate"}
  /\ \E i \in {IF route.interpolate = NotCompiled THEN getInterpolate(route)
               ELSE route.interpolate} :
     \E v \in {IF i.threw THEN Threw ELSE applyInterpolation(i, params)} :
       /\ op' = "interpolate"
       /\ arg' = [params |-> params, cached |-> route.interpolate # NotCompiled]
       /\ route' = IF i.threw THEN route ELSE [route EXCEPT !.interpolate = i]
       /\ result' = IF i.threw \/ v.threw THEN ThrewError ELSE [tag |-> "Path", value |-> v.value]
       /\ UNCHANGED <<operands, pattern, routes>>

SpecCalls ==
  Init /\ [][\/ \E path \in Paths : Match(path)
             \/ \E path \in DecodePaths : MatchAgain(path)
             \/ \E params \in ParamMaps(route.ast) :
                  Interpolate(params) \/ InterpolateAgain(params)]_vars

\* C21: the compiled matcher and interpolator are kept after the first use
\* and the caching is not observable: in any sequence of match and interpolate
\* calls on one route, each call returns what a freshly constructed route
\* with the same AST and end flag returns for that argument.
C21_CacheUnobservable ==
  LET fresh == make(route.ast, route.end)
  IN /\ op = "match" =>
          result = IF getMatch(fresh).threw THEN ThrewError ELSE match(fresh, arg.path)
     /\ op = "interpolate" =>
          result = IF getInterpolate(fresh).threw THEN ThrewError
                   ELSE LET v == interpolate(fresh, arg.params)
                        IN IF v.threw THEN ThrewError ELSE [tag |-> "Path", value |-> v.value]
     /\ (op \in {"match", "interpolate"} /\ "cached" \in DOMAIN arg /\ arg.cached) =>
          IF op = "match" THEN route.match = getMatch(fresh)
          ELSE route.interpolate = getInterpolate(fresh)

\* a match answered by the matcher an earlier call compiled
C21_Witness ==
  /\ op = "match"
  /\ "cached" \in DOMAIN arg /\ arg.cached
  /\ route.ast = ArticlesSlug /\ route.end
  /\ route.interpolate # NotCompiled
  /\ arg.path = "/articles/123"
  /\ result = Some(Single("slug", Str("123")))

(***************************************************************************)
(* C22: Order as the specified comparator.                                 *)
(***************************************************************************)
\* the number of ':' and '{' characters of a segment
markers(part) == Cardinality({k \in 1..Len(part) : SubSeq(part, k, k) \in {":", "{"}})

\* the comparator as specified, over two templates split on '/': complexity
\* gives the complexity of a segment
specifiedOrder(aParts, bParts, complexity(_)) ==
  LET l == IF Len(aParts) < Len(bParts) THEN Len(aParts) ELSE Len(bParts)
      deciding == {i \in 1..l : /\ aParts[i] # bParts[i]
                                /\ complexity(aParts[i]) # complexity(bParts[i])}
  IN IF deciding = {}
     THEN IF Len(aParts) = Len(bParts) THEN 0
          ELSE IF Len(aParts) > Len(bParts) THEN -1 ELSE 1
     ELSE LET i == CHOOSE i \in deciding : \A k \in deciding : i <= k
          IN IF complexity(aParts[i]) = 0 THEN -1
             ELSE IF complexity(bParts[i]) = 0 THEN 1
             ELSE IF complexity(aParts[i]) > complexity(bParts[i]) THEN 1 ELSE -1

\* the templates of the two routes compared
partsOf(i) == split(getPath(routes[i]), "/")

\* C22 as stated: Order returns the result of the specified comparator, the
\* complexity of a segment being the number of its ':' and '{' characters, 0
\* for any segment without match markers.
C22_OrderAsStated ==
  op = "compare" =>
    \A i, j \in 1..Len(routes) :
      result[i][j] = specifiedOrder(partsOf(i), partsOf(j), LAMBDA part : markers(part))

\* C22 amended: Order returns the result of the specified comparator, the
\* complexity of a segment being -1 for the empty segment and the number of
\* its ':' and '{' characters for any other segment.
C22_Order ==
  op = "compare" =>
    \A i, j \in 1..Len(routes) :
      result[i][j] = specifiedOrder(partsOf(i), partsOf(j),
                                    LAMBDA part : IF part = "" THEN -1 ELSE markers(part))

\* the root template '/' was compared with '/users' and sorts behind it
C22_Witness ==
  /\ op = "compare"
  /\ routes = <<make(separator, FALSE), Users>>
  /\ result = <<<<0, 1>>, <<-1, 0>>>>

(***************************************************************************)
(* C23: parse and the query part of a pattern.                             *)
(***************************************************************************)
\* the pattern has a query part: the separator parse splits on occurs in it
hasQueryPart(p) == indexOf(removeLeadingSlash(removeTrailingSlash(p)), QuerySeparator) > 0

\* C23: when the pattern contains a query part, empty or not, parse wraps the
\* whole path AST in a QueryParams node.
C23_QueryWrapped ==
  (op = "make" /\ hasQueryPart(pattern)) =>
    /\ route.ast.tag = "QueryParams"
    /\ route.ast.previous = parse(split(pattern, QuerySeparator)[1])

(***************************************************************************)
(* C24, C25: the brace tokens of a pattern.                                *)
(***************************************************************************)
\* the AST parse gives for a pattern that is one brace token: the token
\* between the two empty sides that splitByPrefixes turns into '/'
tokenAst(ast) == Concat(Concat(Literal("/"), ast), Literal("/"))

\* C24: parse maps the token {prefix:name} to Prefix(prefix, Param(name)) and
\* the token {prefix:*} to Prefix(prefix, UnnamedParam).
C24_PrefixTokens ==
  op = "make" =>
    /\ pattern = "{user-:id}" => route.ast = tokenAst(Prefix("user-", Param("id")))
    /\ pattern = "/foo{-:fooId}" =>
         route.ast = Concat(Concat(Literal("foo"), Prefix("-", Param("fooId"))), Literal("/"))
    /\ pattern = "{user-:*}" => route.ast = tokenAst(Prefix("user-", UnnamedParam))

\* C25: a brace token with no ':' part, such as {foo}, is a contract
\* violation: parse throws, or else the compilation at the first call throws.
C25_PrefixWithoutCapture ==
  (pattern = "{foo}" /\ op = "match") => result = ThrewError

(***************************************************************************)
(* C26: the path content concat places before the query block.             *)
(***************************************************************************)
\* merge as specified: b when a is an empty literal, Concat(a, b) otherwise
merge(a, b) == IF a.tag = "Literal" /\ a.literal \in {"", "/"} THEN b ELSE Concat(a, b)

\* C26: in concat the path content before the query block is merge(a, b):
\* with both operands QueryParams the previous of the result is
\* merge(left.previous, right.previous), and with only the right operand
\* QueryParams it is merge(left, right.previous).
C26_Merge ==
  (op = "concat" /\ operands[2].tag = "QueryParams") =>
    result.previous = IF operands[1].tag = "QueryParams"
                      THEN merge(operands[1].previous, operands[2].previous)
                      ELSE merge(operands[1], operands[2].previous)

(***************************************************************************)
(* C27: the end flag of a concatenated route.                              *)
(***************************************************************************)
\* C27: the route concat returns has the end flag of the right route, except
\* when the root of the right AST is WithSchema or QueryParams: then it has
\* the flag of the left route.  So home (end=true) keeps its flag when a
\* query route is appended and loses it when a param or literal route made
\* with end=false is appended.
C27_EndFlag ==
  op = "concatRoutes" =>
    /\ result.ast = concat(operands[1], operands[2])
    /\ result.end = IF operands[2].tag \in {"WithSchema", "QueryParams"}
                    THEN arg.leftEnd ELSE arg.rightEnd
    /\ (operands[1] = separator /\ arg.leftEnd /\ ~arg.rightEnd) =>
         /\ operands[2] = LeftQuery => result.end
         /\ operands[2] \in {param("x"), Literal("a")} => ~result.end

\* home.concat(queryParams(...)) kept end=true
C27_Witness ==
  /\ op = "concatRoutes"
  /\ operands[1] = separator /\ operands[2] = LeftQuery
  /\ arg = [leftEnd |-> TRUE, rightEnd |-> FALSE]
  /\ result = make(LeftQuery, TRUE)

(***************************************************************************)
(* C28: Order is a total preorder.                                         *)
(***************************************************************************)
\* C28: for all routes a, b the results of Order(a, b) and Order(b, a) are
\* negations of each other, and for all a, b, c, Order(a, b) <= 0 and
\* Order(b, c) <= 0 imply Order(a, c) <= 0, templates with an empty segment
\* among them.
C28_TotalPreorder ==
  op = "compare" =>
    LET n == Len(routes)
    IN /\ \A i, j \in 1..n : result[i][j] = 0 - result[j][i]
       /\ \A i, j, k \in 1..n :
            (result[i][j] <= 0 /\ result[j][k] <= 0) => result[i][k] <= 0

\* three templates in a chain, the root template with its empty segment last
C28_Witness ==
  /\ op = "compare"
  /\ routes = <<UsersSettings, Users, make(separator, FALSE)>>
  /\ result[1][2] = -1 /\ result[2][3] = -1 /\ result[1][3] = -1

(***************************************************************************)
(* C29: a Prefix around a query param.                                     *)
(***************************************************************************)
\* the route is a query block whose one param is Prefix(text, Param(name))
isPrefixedQuery(ast) ==
  /\ ast.tag = "QueryParams" /\ ast.previous = separator
  /\ Len(ast.params) = 1
  /\ ast.params[1].value.tag = "Prefix"
  /\ ast.params[1].value.param.tag = "Param"

\* C29: the matcher of a Prefix-wrapped query param removes the first
\* |prefix| characters of the value under the key without testing that the
\* value starts with the prefix: a value that does not begin with the prefix
\* is matched and captured minus its first |prefix| characters.  A path
\* Prefix fails unless the front segment starts with the prefix.
C29_QueryPrefix ==
  /\ (Matched /\ isPrefixedQuery(route.ast) /\ Len(CallSegs) = 0) =>
       LET p == route.ast.params[1]
       IN result = IF has(CallQuery, p.key)
                   THEN Some(Single(p.value.param.param,
                                    Str(sliceFrom(get(CallQuery, p.key), Len(p.value.prefix)))))
                   ELSE None
  /\ (Matched /\ route.ast = UserPrefix /\ Len(CallSegs) > 0
        /\ ~startsWith(CallSegs[1], "user-")) => result = None

\* the value 'test' does not begin with 'xy' and was captured as 'st'
C29_Witness ==
  /\ Matched
  /\ route.ast = queryParams(<<QueryParam("q", prefix("xy", param("query")))>>)
  /\ arg.path = "/?q=test"
  /\ result = Some(Single("query", Str("st")))

(***************************************************************************)
(* C30: the ASTs whose compilation throws.                                 *)
(***************************************************************************)
\* a Concat or QueryParams node sits directly under a modifier, a Prefix or a
\* WithSchema, below a node that has to be simple
RECURSIVE nestedBelow(_)
nestedBelow(ast) ==
  CASE ast.tag \in {"Optional", "OneOrMore", "ZeroOrMore", "Prefix"} ->
         ~isSimpleAst(ast.param) \/ nestedBelow(ast.param)
    [] ast.tag = "WithSchema" -> ~isSimpleAst(ast.ast) \/ nestedBelow(ast.ast)
    [] OTHER -> FALSE

\* the AST has such a nesting, in a path group or in a query-param value
RECURSIVE nested(_)
nested(ast) ==
  CASE ast.tag = "Concat" -> nested(ast.left) \/ nested(ast.right)
    [] ast.tag = "WithSchema" -> nested(ast.ast)
    [] ast.tag = "QueryParams" ->
         \/ nested(ast.previous)
         \/ \E i \in 1..Len(ast.params) :
              ~isSimpleAst(ast.params[i].value) \/ nestedBelow(ast.params[i].value)
    [] OTHER -> nestedBelow(ast)

\* C30: compiling the matcher or the interpolator at the first call throws,
\* rather than returning absent, whenever a Concat or QueryParams node sits
\* directly under a modifier, a Prefix, a WithSchema inside those, or a
\* query-param value; an AST without such a nesting never throws at compile
\* time.
C30_CompileThrows ==
  /\ op = "match" => (result = ThrewError <=> nested(route.ast))
  /\ op = "interpolate" =>
       /\ getInterpolate(route).threw <=> nested(route.ast)
       /\ nested(route.ast) => result = ThrewError

====
